---- MODULE Spec2Model ----
(***************************************************************************)
(* Model of the /query handler of app.py (query_gemini): request          *)
(* validation, upstream payload construction, the outbound call and the   *)
(* normalisation of the upstream result into the caller-facing response.  *)
(*                                                                         *)
(* JSON / Python values are tagged records [t |-> tag, ...]:               *)
(*   null, bool, int, float, str (a sequence of text tokens), list (a     *)
(*   sequence of values), obj (a function from keys to values; a key that *)
(*   is absent from the dict is absent from the function's domain).       *)
(* A string is a sequence of tokens: single characters where the code     *)
(* looks inside the string (int()), whole fragments for literal text.     *)
(***************************************************************************)
EXTENDS Integers, Sequences, FiniteSets, TLC

VARIABLES environ, pc, request, payload, upstreamCalls, upstream, response,
          console, earlier

vars == <<environ, pc, request, payload, upstreamCalls, upstream, response,
          console, earlier>>

-----------------------------------------------------------------------------
(* Python / JSON values *)

Null == [t |-> "null"]

Bool(b) == [t |-> "bool", v |-> b]

Integer(n) == [t |-> "int", v |-> n]

Float(num, den) == [t |-> "float", num |-> num, den |-> den]

Str(s) == [t |-> "str", v |-> s]

List(s) == [t |-> "list", v |-> s]

Obj(f) == [t |-> "obj", f |-> f]

EmptyDict == Obj(<<>>)

\* bool(v): Python truthiness, as used by `if not prompt`, `if candidates`, ...
Truthy(v) ==
  CASE v.t = "null" -> FALSE
    [] v.t = "bool" -> v.v
    [] v.t = "int" -> v.v # 0
    [] v.t = "float" -> v.num # 0
    [] v.t = "str" -> v.v # <<>>
    [] v.t = "list" -> v.v # <<>>
    [] v.t = "obj" -> DOMAIN v.f # {}

\* dict.get(key, default) on a value known to be a dict
Get(o, key, default) == IF key \in DOMAIN o.f THEN o.f[key] ELSE default

\* type(v).__name__
TypeName(v) ==
  CASE v.t = "null" -> "NoneType"
    [] v.t = "bool" -> "bool"
    [] v.t = "int" -> "int"
    [] v.t = "float" -> "float"
    [] v.t = "str" -> "str"
    [] v.t = "list" -> "list"
    [] v.t = "obj" -> "dict"

\* str(e) of the AttributeError raised by v.get(...) on a non-dict v
NoGetAttribute(v) == <<"'", TypeName(v), "' object has no attribute 'get'">>

\* str(e) of the exception raised by v[0] on a truthy value that is no list
NoIndexZero(v) ==
  IF v.t = "obj" THEN <<"0">>
  ELSE <<"'", TypeName(v), "' object is not subscriptable">>

Digits == <<"0", "1", "2", "3", "4", "5", "6", "7", "8", "9">>

IsDigit(c) == \E i \in 1..10 : Digits[i] = c

DigitVal(c) == (CHOOSE i \in 1..10 : Digits[i] = c) - 1

RECURSIVE StripLeft(_)
StripLeft(s) == IF s # <<>> /\ Head(s) = " " THEN StripLeft(Tail(s)) ELSE s

RECURSIVE StripRight(_)
StripRight(s) ==
  IF s # <<>> /\ s[Len(s)] = " " THEN StripRight(SubSeq(s, 1, Len(s) - 1)) ELSE s

RECURSIVE DigitsValue(_)
DigitsValue(s) ==
  IF s = <<>> THEN 0
  ELSE 10 * DigitsValue(SubSeq(s, 1, Len(s) - 1)) + DigitVal(s[Len(s)])

\* int(v): [ok |-> TRUE, v |-> n] or the exception type it raises
PyInt(v) ==
  CASE v.t = "int" -> [ok |-> TRUE, v |-> v.v, exc |-> ""]
    [] v.t = "bool" -> [ok |-> TRUE, v |-> IF v.v THEN 1 ELSE 0, exc |-> ""]
    [] v.t = "float" -> [ok |-> TRUE, v |-> v.num \div v.den, exc |-> ""]
    [] v.t = "str" ->
         LET s == StripRight(StripLeft(v.v))
             neg == s # <<>> /\ Head(s) = "-"
             body == IF s # <<>> /\ Head(s) \in {"-", "+"} THEN Tail(s) ELSE s
         IN  IF body # <<>> /\ \A i \in 1..Len(body) : IsDigit(body[i])
             THEN [ok |-> TRUE,
                   v |-> IF neg THEN 0 - DigitsValue(body) ELSE DigitsValue(body),
                   exc |-> ""]
             ELSE [ok |-> FALSE, v |-> 0, exc |-> "ValueError"]
    [] v.t \in {"null", "list", "obj"} ->
         [ok |-> FALSE, v |-> 0, exc |-> "TypeError"]

\* str(v) inside an f-string
PyStr(v) ==
  CASE v.t = "str" -> v.v
    [] v.t = "null" -> <<"None">>
    [] v.t = "bool" -> IF v.v THEN <<"True">> ELSE <<"False">>

-----------------------------------------------------------------------------
(* Configuration read at import time *)

MissingKey == <<"YOUR_GEMINI_API_KEY_IS_MISSING">>

\* os.environ.get("GEMINI_API_KEY", "YOUR_GEMINI_API_KEY_IS_MISSING")
GEMINI_API_KEY == IF environ.t = "null" THEN MissingKey ELSE environ.v

GEMINI_API_MODEL == <<"gemini-2.5-flash-preview-09-2025">>

GEMINI_API_URL ==
  <<"https://generativelanguage.googleapis.com", "/v1beta/models/">>
  \o GEMINI_API_MODEL \o <<":generateContent?key=">> \o GEMINI_API_KEY

DefaultMaxTokens == 400

-----------------------------------------------------------------------------
(* Responses *)

NoResponse == [kind |-> "none", status |-> 0, body |-> <<>>]

\* jsonify(body), status
Json(body, status) == [kind |-> "json", status |-> status, body |-> body]

\* what the framework answers when the view raises: an HTML error page
FrameworkError(status) == [kind |-> "html", status |-> status, body |-> <<>>]

ErrorBody(msg) == "error" :> Str(msg)

AnswerBody(text) == "answer" :> text

NoPromptMessage == <<"No prompt provided">>

KeyNotSetMessage ==
  <<"API Key is not set in the hosting service's environment variables. Please set ",
    "GEMINI_API_KEY", ".">>

MaxTokensMessage == <<"max_tokens must be an integer.">>

-----------------------------------------------------------------------------
(* query_gemini, up to the outbound call *)

\* PromptMissing with `if prompt is None` in place of `if not prompt`
PromptIsNone(prompt) == prompt.t = "null"

\* `if not prompt`
PromptMissing(prompt) == ~Truthy(prompt)

\* KeyMissing with `if not GEMINI_API_KEY` in place of the comparison
KeyEmpty == GEMINI_API_KEY = <<>>

\* `if GEMINI_API_KEY == "YOUR_GEMINI_API_KEY_IS_MISSING"`
KeyMissing == GEMINI_API_KEY = MissingKey

\* an optional key of a dict literal
Entry(cond, key, value) == IF cond THEN key :> value ELSE <<>>

\* the payload dict: contents, then the optional systemInstruction, tools and
\* generationConfig
BuildPayload(prompt, system_instruction, use_search, max_tokens) ==
  Obj(("contents" :> List(<<Obj("parts" :> List(<<Obj("text" :> prompt)>>))>>))
      @@ Entry(Truthy(system_instruction), "systemInstruction",
               Obj("parts" :> List(<<Obj("text" :> system_instruction)>>)))
      @@ Entry(Truthy(use_search), "tools",
               List(<<Obj("google_search" :> EmptyDict)>>))
      @@ Entry(max_tokens.t # "null", "generationConfig",
               Obj("maxOutputTokens" :> Integer(PyInt(max_tokens).v))))

Return(resp) == [send |-> FALSE, resp |-> resp, payload |-> Null]

Send(p) == [send |-> TRUE, resp |-> NoResponse, payload |-> p]

\* the view function from `data = request.json` to the print of the payload:
\* either a response (or an exception that leaves the view) or the payload to post
QueryStart(data) ==
  IF data.t # "obj" THEN Return(FrameworkError(500))
  ELSE
    LET prompt == Get(data, "prompt", Str(<<>>))
        system_instruction == Get(data, "system_instruction", Null)
        use_search == Get(data, "use_search", Bool(FALSE))
        max_tokens == Get(data, "max_tokens", Integer(DefaultMaxTokens))
    IN  IF PromptMissing(prompt)
          THEN Return(Json(ErrorBody(NoPromptMessage), 400))
        ELSE IF KeyMissing
          THEN Return(Json(ErrorBody(KeyNotSetMessage), 500))
        ELSE IF max_tokens.t # "null" /\ ~PyInt(max_tokens).ok
          THEN IF PyInt(max_tokens).exc = "ValueError"
                 THEN Return(Json(ErrorBody(MaxTokensMessage), 400))
                 ELSE Return(FrameworkError(500))
        ELSE Send(BuildPayload(prompt, system_instruction, use_search, max_tokens))

-----------------------------------------------------------------------------
(* query_gemini, from the outbound call on: the normalisation of its result *)

Found(text) == [k |-> "text", v |-> text, msg |-> <<>>]

NoText == [k |-> "none", v |-> Null, msg |-> <<>>]

Raised(msg) == [k |-> "raise", v |-> Null, msg |-> msg]

\* "Ultra-Safe Parsing": candidates[0].content.parts[0].text when it is there and
\* truthy; the .get of a value that is no dict, and [0] of a truthy value that is
\* no list, raise into `except Exception`
ExtractText(result) ==
  IF result.t # "obj" THEN Raised(NoGetAttribute(result))
  ELSE
    LET candidates == Get(result, "candidates", List(<<EmptyDict>>)) IN
    IF ~Truthy(candidates) THEN NoText
    ELSE IF candidates.t # "list" THEN Raised(NoIndexZero(candidates))
    ELSE
      LET first_candidate == candidates.v[1] IN
      IF first_candidate.t # "obj" THEN Raised(NoGetAttribute(first_candidate))
      ELSE
        LET content == Get(first_candidate, "content", EmptyDict) IN
        IF content.t # "obj" THEN Raised(NoGetAttribute(content))
        ELSE
          LET parts == Get(content, "parts", List(<<EmptyDict>>)) IN
          IF ~Truthy(parts) THEN NoText
          ELSE IF parts.t # "list" THEN Raised(NoIndexZero(parts))
          ELSE
            LET part == parts.v[1] IN
            IF part.t # "obj" THEN Raised(NoGetAttribute(part))
            ELSE IF Truthy(Get(part, "text", Null))
              THEN Found(Get(part, "text", Null))
              ELSE NoText

\* BlockedMessage without the reason
BlockedMessageNoReason(reason) ==
  <<"Generation blocked by Gemini safety filters or content policy.">>

BlockedMessage(reason) ==
  <<"Generation blocked by Gemini safety filters or content policy. Reason: ">>
  \o PyStr(reason)

ExtractFailedMessage ==
  <<"Failed to extract text from API response. Check console logs for raw output.">>

RequestErrorMessage(e) ==
  <<"API Request Error (HTTP Failure): ">> \o e
  \o <<". Check if your ", "GEMINI_API_KEY", " is valid.">>

Printed(tag, data) == [tag |-> tag, data |-> data]

Outcome(resp, log) == [resp |-> resp, log |-> log]

\* `except Exception as e`
CaughtException(e) == Outcome(Json(ErrorBody(e), 500), <<>>)

\* `except requests.exceptions.RequestException as e`, with error_details the
\* text of e.response when the exception carries a response and str(e) otherwise
CaughtRequestException(e, error_details) ==
  Outcome(Json(ErrorBody(RequestErrorMessage(e)), 500),
          <<Printed("API Request Error Details", Str(error_details))>>)

\* Normalize with the promptFeedback check moved before the text check
NormalizeFeedbackFirst(result) ==
  LET x == ExtractText(result)
      prompt_feedback == Get(result, "promptFeedback", Null)
  IN
  IF x.k = "raise" THEN CaughtException(x.msg)
  ELSE IF Truthy(prompt_feedback)
    THEN IF prompt_feedback.t # "obj"
           THEN CaughtException(NoGetAttribute(prompt_feedback))
           ELSE Outcome(Json(ErrorBody(BlockedMessage(
                          Get(prompt_feedback, "blockReason",
                              Str(<<"Unknown reason.">>)))), 500), <<>>)
  ELSE IF x.k = "text" THEN Outcome(Json(AnswerBody(x.v), 200), <<>>)
  ELSE Outcome(Json(ErrorBody(ExtractFailedMessage), 500),
               <<Printed("RAW API RESPONSE ON PARSING FAILURE", result)>>)

\* the try block after `result = response.json()`
Normalize(result) ==
  LET x == ExtractText(result) IN
  IF x.k = "raise" THEN CaughtException(x.msg)
  ELSE IF x.k = "text" THEN Outcome(Json(AnswerBody(x.v), 200), <<>>)
  ELSE
    LET prompt_feedback == Get(result, "promptFeedback", Null) IN
    IF Truthy(prompt_feedback)
      THEN IF prompt_feedback.t # "obj"
             THEN CaughtException(NoGetAttribute(prompt_feedback))
             ELSE Outcome(Json(ErrorBody(BlockedMessage(
                            Get(prompt_feedback, "blockReason",
                                Str(<<"Unknown reason.">>)))), 500), <<>>)
      ELSE Outcome(Json(ErrorBody(ExtractFailedMessage), 500),
                   <<Printed("RAW API RESPONSE ON PARSING FAILURE", result)>>)

-----------------------------------------------------------------------------
(* Inputs *)

Hi == <<"H", "i">>

Prompts == {Null, Str(<<>>), Str(Hi)}

MaxTokenInputs ==
  { Null, Integer(50), Str(<<"5", "0">>), Str(<<" ", "7">>), Str(<<"a", "b", "c">>),
    Float(37, 10), Bool(TRUE), List(<<Integer(50)>>), EmptyDict }

RequestObjects ==
  { Obj(Entry(p.t # "absent", "prompt", p)
        @@ Entry(s, "system_instruction", Str(<<"persona">>))
        @@ Entry(u, "use_search", Bool(TRUE))
        @@ Entry(m.t # "absent", "max_tokens", m)) :
      p \in Prompts \cup {[t |-> "absent"]}, s \in BOOLEAN, u \in BOOLEAN,
      m \in MaxTokenInputs \cup {[t |-> "absent"]} }

\* a body that is JSON but no object
NonObjectBodies == {Null, List(<<>>)}

\* a body that is not JSON at all
RawBody == [t |-> "raw"]

\* what `request.json` does with a body that is not JSON: abort(415) or
\* abort(400) from the framework, or None on a framework that returns it
RawOutcomes == {"abort415", "abort400", "none"}

NoUpstream == [k |-> "none", doc |-> Null, text |-> <<>>, body |-> <<>>]

NoEarlier == [class |-> "none", msg |-> <<>>]

Keys == {Null, Str(<<"k", "1">>)}

Init ==
  /\ environ \in Keys
  /\ pc = "idle"
  /\ request = Null
  /\ payload = Null
  /\ upstreamCalls = 0
  /\ upstream = NoUpstream
  /\ response = NoResponse
  /\ console = <<>>
  /\ earlier = NoEarlier

Absent == [t |-> "absent"]

Texts == {Hi, <<"OTHER">>}

TextValues == {Null, Str(<<>>)} \cup {Str(x) : x \in Texts}

PartValues == {Null, EmptyDict} \cup {Obj("text" :> x) : x \in TextValues}

PartsValues == {Null, List(<<>>)} \cup {List(<<x>>) : x \in PartValues}

ContentValues == {Null, EmptyDict} \cup {Obj("parts" :> x) : x \in PartsValues}

FinishReasons == {Str(<<"STOP">>), Str(<<"MAX_TOKENS">>), Str(<<"SAFETY">>)}

CandidateValues ==
  {Null} \cup
  { Obj(Entry(c.t # "absent", "content", c) @@ Entry(f.t # "absent", "finishReason", f)) :
      c \in ContentValues \cup {Absent}, f \in FinishReasons \cup {Absent} }

CandidatesValues == {Null, List(<<>>)} \cup {List(<<x>>) : x \in CandidateValues}

BlockReasons == {Str(<<"OTHER">>), Str(<<"SAFETY">>)}

PromptFeedbackValues ==
  {Null, EmptyDict, Obj("safetyRatings" :> List(<<>>))}
  \cup {Obj("blockReason" :> x) : x \in BlockReasons \cup {Null}}

\* the documents of a 2xx reply: JSON objects with optional candidates and
\* promptFeedback, and a JSON value that is no object
Documents ==
  { Obj(Entry(c.t # "absent", "candidates", c) @@ Entry(f.t # "absent", "promptFeedback", f)) :
      c \in CandidatesValues \cup {Absent}, f \in PromptFeedbackValues \cup {Absent} }
  \cup {List(<<>>)}

\* str(e) of the ConnectionError that requests.post raises: it quotes the path
\* and query of the URL
ConnectionErrors ==
  { <<"HTTPSConnectionPool(host='generativelanguage.googleapis.com', port=443): Max retries exceeded with url: ">>
    \o Tail(GEMINI_API_URL) \o <<cause>> :
      cause \in {" (Caused by NewConnectionError: Connection refused)",
                 " (Caused by NameResolutionError)"} }

HttpStatuses ==
  { <<"400", " Client Error: ", "Bad Request">>,
    <<"503", " Server Error: ", "Service Unavailable">> }

\* str(e) of the HTTPError that raise_for_status() raises
HttpErrorText(status) == status \o <<" for url: ">> \o GEMINI_API_URL

ErrorPages == {<<"{\"error\": {\"status\": \"INVALID_ARGUMENT\"}}">>}

JsonDecodeError == <<"Expecting value: line 1 column 1 (char 0)">>

\* which except clause produced the response of the request just handled
FailureClass ==
  CASE upstream.k = "connfail" -> "transport"
    [] upstream.k = "http" -> "http"
    [] upstream.k = "badjson" -> "parse"
    [] upstream.k = "ok" /\ ExtractText(upstream.doc).k = "raise" -> "parse"
    [] upstream.k = "ok" /\ ExtractText(upstream.doc).k = "none"
         /\ Truthy(Get(upstream.doc, "promptFeedback", Null))
         /\ Get(upstream.doc, "promptFeedback", Null).t # "obj" -> "parse"
    [] OTHER -> "none"

\* the failure of the request before the one being handled
Remember ==
  IF pc = "done" /\ FailureClass # "none"
    THEN [class |-> FailureClass, msg |-> response.body["error"].v]
    ELSE earlier

-----------------------------------------------------------------------------
(* Actions *)

\* a POST /query whose body is JSON: the view runs up to requests.post
Request(data) ==
  /\ pc = "idle"
  /\ LET r == QueryStart(data) IN
       /\ request' = data
       /\ payload' = r.payload
       /\ response' = r.resp
       /\ upstreamCalls' = IF r.send THEN 1 ELSE 0
       /\ pc' = IF r.send THEN "upstream" ELSE "done"
       /\ console' = IF r.send THEN <<Printed("Sending Payload", r.payload)>> ELSE <<>>
  /\ upstream' = NoUpstream
  /\ UNCHANGED <<environ, earlier>>

\* a POST /query whose body is not JSON: request.json aborts, or returns None
RawRequest(outcome) ==
  /\ pc = "idle"
  /\ request' = RawBody
  /\ response' = CASE outcome = "abort415" -> FrameworkError(415)
                   [] outcome = "abort400" -> FrameworkError(400)
                   [] outcome = "none" -> QueryStart(Null).resp
  /\ payload' = Null
  /\ upstreamCalls' = 0
  /\ pc' = "done"
  /\ console' = <<>>
  /\ upstream' = NoUpstream
  /\ UNCHANGED <<environ, earlier>>

Finish(up, out) ==
  /\ upstream' = up
  /\ response' = out.resp
  /\ console' = console \o out.log
  /\ pc' = "done"
  /\ UNCHANGED <<environ, request, payload, upstreamCalls, earlier>>

\* requests.post raises a ConnectionError: no response came back
ConnectionFails(e) ==
  /\ pc = "upstream"
  /\ Finish([k |-> "connfail", doc |-> Null, text |-> e, body |-> <<>>],
            CaughtRequestException(e, e))

\* the upstream answers with a 4xx or 5xx status: raise_for_status() raises
HttpError(status, page) ==
  /\ pc = "upstream"
  /\ Finish([k |-> "http", doc |-> Null, text |-> HttpErrorText(status), body |-> page],
            CaughtRequestException(HttpErrorText(status), page))

\* the upstream answers 2xx with a body that is not JSON: response.json() raises
\* an exception that is a RequestException in some versions of requests and a
\* plain ValueError in others
NotJson(asRequestException) ==
  /\ pc = "upstream"
  /\ Finish([k |-> "badjson", doc |-> Null, text |-> JsonDecodeError, body |-> <<>>],
            LET c == IF asRequestException
                       THEN CaughtRequestException(JsonDecodeError, JsonDecodeError)
                       ELSE CaughtException(JsonDecodeError)
            IN  Outcome(c.resp, <<Printed("API Status", Integer(200))>> \o c.log))

\* the upstream answers 2xx with a JSON document
Success(doc) ==
  /\ pc = "upstream"
  /\ LET n == Normalize(doc) IN
       Finish([k |-> "ok", doc |-> doc, text |-> <<>>, body |-> <<>>],
              Outcome(n.resp, <<Printed("API Status", Integer(200))>> \o n.log))

\* the response is sent and the view's locals are gone; the next request can come
Sent ==
  /\ pc = "done"
  /\ pc' = "idle"
  /\ request' = Null
  /\ payload' = Null
  /\ upstreamCalls' = 0
  /\ upstream' = NoUpstream
  /\ response' = NoResponse
  /\ console' = <<>>
  /\ earlier' = Remember
  /\ UNCHANGED environ

Next ==
  \/ \E data \in RequestObjects \cup NonObjectBodies : Request(data)
  \/ \E outcome \in RawOutcomes : RawRequest(outcome)
  \/ \E e \in ConnectionErrors : ConnectionFails(e)
  \/ \E status \in HttpStatuses, page \in ErrorPages : HttpError(status, page)
  \/ \E b \in BOOLEAN : NotJson(b)
  \/ \E doc \in Documents : Success(doc)
  \/ Sent

Spec == Init /\ [][Next]_vars

-----------------------------------------------------------------------------
(* Vocabulary of the properties: the shape of a request and of an upstream   *)
(* document, read off the JSON itself                                        *)

Handled == pc = "done"

HasKey(o, key) == o.t = "obj" /\ key \in DOMAIN o.f

IsStr(v, s) == v.t = "str" /\ v.v = s

NonEmptyStr(v) == v.t = "str" /\ v.v # <<>>

\* the request body is a JSON object whose prompt is missing or the empty string
PromptMissingOrEmpty ==
  /\ request.t = "obj"
  /\ ~HasKey(request, "prompt") \/ IsStr(request.f["prompt"], <<>>)

\* the request body is a JSON object with a non-empty string as its prompt
PromptGiven ==
  /\ HasKey(request, "prompt")
  /\ NonEmptyStr(request.f["prompt"])

CredentialConfigured == environ.t = "str"

ErrorText == response.body["error"].v

\* whether `needle` occurs in `text` as a contiguous run of tokens
Contains(text, needle) ==
  \E i \in 0..(Len(text) - Len(needle)) :
     \A j \in 1..Len(needle) : text[i + j] = needle[j]

\* the response is {"error": <string>} with this status
IsError(status) ==
  /\ response.kind = "json"
  /\ response.status = status
  /\ DOMAIN response.body = {"error"}
  /\ response.body["error"].t = "str"

\* where candidates[0].content.parts[0].text leads in a document: to a non-empty
\* string ("text"), to a key that is absent, a list that is empty or a string
\* that is empty ("absent"), or to a null on the way ("null")
TextPath(doc) ==
  LET absent == [k |-> "absent", v |-> Null]
      null == [k |-> "null", v |-> Null]
  IN
  IF ~HasKey(doc, "candidates") THEN absent
  ELSE LET cs == doc.f["candidates"] IN
  IF cs.t = "null" THEN null
  ELSE IF cs.v = <<>> THEN absent
  ELSE LET c == cs.v[1] IN
  IF c.t = "null" THEN null
  ELSE IF ~HasKey(c, "content") THEN absent
  ELSE LET content == c.f["content"] IN
  IF content.t = "null" THEN null
  ELSE IF ~HasKey(content, "parts") THEN absent
  ELSE LET ps == content.f["parts"] IN
  IF ps.t = "null" THEN null
  ELSE IF ps.v = <<>> THEN absent
  ELSE LET part == ps.v[1] IN
  IF part.t = "null" THEN null
  ELSE IF ~HasKey(part, "text") THEN absent
  ELSE LET text == part.f["text"] IN
  IF text.t = "null" THEN null
  ELSE IF text.v = <<>> THEN absent
  ELSE [k |-> "text", v |-> text]

\* promptFeedback.blockReason when it is there and a string, null otherwise
BlockReason(doc) ==
  IF /\ HasKey(doc, "promptFeedback")
     /\ HasKey(doc.f["promptFeedback"], "blockReason")
    THEN doc.f["promptFeedback"].f["blockReason"]
    ELSE Null

\* candidates[0].finishReason when it is there, null otherwise
FinishReason(doc) ==
  IF /\ HasKey(doc, "candidates")
     /\ doc.f["candidates"].t = "list"
     /\ doc.f["candidates"].v # <<>>
     /\ HasKey(doc.f["candidates"].v[1], "finishReason")
    THEN doc.f["candidates"].v[1].f["finishReason"]
    ELSE Null

\* the upstream answered 2xx with a JSON object, and the response is out
Answered2xx == Handled /\ upstream.k = "ok" /\ upstream.doc.t = "obj"

-----------------------------------------------------------------------------
(* Properties *)

\* C1: a request whose JSON body has a missing or empty prompt is answered with
\* {"error": ...} and status 400, whatever its other fields and whether or not
\* the credential is configured, and no upstream call is made while handling it.
C1_EmptyPromptRejected ==
  PromptMissingOrEmpty =>
    /\ pc = "done"
    /\ IsError(400)
    /\ upstreamCalls = 0
    /\ payload = Null
    /\ upstream = NoUpstream

\* an empty prompt with the credential configured and a max_tokens that is no
\* integer, rejected with 400
C1_Witness ==
  /\ Handled
  /\ CredentialConfigured
  /\ HasKey(request, "prompt") /\ IsStr(request.f["prompt"], <<>>)
  /\ HasKey(request, "max_tokens") /\ request.f["max_tokens"].t = "list"
  /\ IsError(400)

\* C2: a 2xx document whose candidates[0].content.parts[0].text is a non-empty
\* string is answered with exactly {"answer": <that text>} and status 200,
\* whatever promptFeedback.blockReason and candidates[0].finishReason hold.
C2_TextPassedThrough ==
  (Answered2xx /\ TextPath(upstream.doc).k = "text") =>
    response = [kind |-> "json", status |-> 200,
                body |-> ("answer" :> TextPath(upstream.doc).v)]

\* a document with text, a blockReason and finishReason MAX_TOKENS at once
C2_Witness ==
  /\ Answered2xx
  /\ TextPath(upstream.doc).k = "text"
  /\ TextPath(upstream.doc).v = Str(Hi)
  /\ BlockReason(upstream.doc).t = "str"
  /\ FinishReason(upstream.doc) = Str(<<"MAX_TOKENS">>)
  /\ response.status = 200

C4_TruncationReported ==
  (/\ Answered2xx
   /\ TextPath(upstream.doc).k = "absent"
   /\ ~HasKey(upstream.doc, "promptFeedback")
   /\ FinishReason(upstream.doc) = Str(<<"MAX_TOKENS">>)) =>
    /\ IsError(500)
    /\ ErrorText # ExtractFailedMessage

\* C5: when the outbound call fails at connection level, the response has
\* status 503 and a JSON error body, and never status 200 or an answer.
C5_TransportFailureIs503 ==
  (Handled /\ upstream.k = "connfail") => IsError(503)

\* C6: the error text of a classified failure (transport failure, upstream
\* non-2xx, unexpected exception while parsing the upstream document) is the
\* same for any two requests of the same class, and carries neither the raw
\* exception text nor the credential of the upstream URL.
C6_NoInternalDetail ==
  (Handled /\ FailureClass # "none") =>
    /\ response.kind = "json"
    /\ earlier.class = FailureClass => earlier.msg = ErrorText
    /\ ~Contains(ErrorText, GEMINI_API_KEY)
    /\ upstream.text # <<>> => ~Contains(ErrorText, upstream.text)

IsIntegerInput(v) == v.t = "int" \/ (v.t = "str" /\ PyInt(v).ok)

\* C8: for a request with a non-empty prompt and a supplied max_tokens (the
\* credential being configured): an integer parseable from the input is carried
\* as generationConfig.maxOutputTokens of the upstream payload; any other value
\* is rejected with a JSON error and status 400, and no upstream call is made.
C8_MaxTokensValidated ==
  (/\ CredentialConfigured
   /\ pc # "idle"
   /\ PromptGiven
   /\ HasKey(request, "max_tokens")
   /\ request.f["max_tokens"].t # "null") =>
    IF IsIntegerInput(request.f["max_tokens"])
      THEN /\ upstreamCalls = 1
           /\ HasKey(payload, "generationConfig")
           /\ payload.f["generationConfig"] =
                Obj("maxOutputTokens" :> Integer(PyInt(request.f["max_tokens"]).v))
      ELSE /\ Handled
           /\ IsError(400)
           /\ upstreamCalls = 0

\* C9: every request, for every body and every upstream outcome, ends in one
\* response that is a JSON object holding exactly one of answer or error, with
\* status 200 exactly when it holds answer; a body that is not JSON is answered
\* {"error": "Missing JSON in request"} with status 400; no exception leaves
\* the handler.
C9_AlwaysJsonResponse ==
  Handled =>
    /\ response.kind = "json"
    /\ DOMAIN response.body \in {{"answer"}, {"error"}}
    /\ response.status = 200 <=> DOMAIN response.body = {"answer"}
    /\ request = RawBody =>
         response = Json(ErrorBody(<<"Missing JSON in request">>), 400)

\* C10: a 2xx document with no usable text, no blockReason (promptFeedback
\* absent, null, or present without a blockReason or with a null one; fields
\* on the text path absent, empty or null) and a finishReason other than
\* MAX_TOKENS and SAFETY is answered with status 500 and the generic "failed to
\* extract text" message, and the raw document is printed for the operator and
\* is not in the response.
C10_GenericExtractionFailure ==
  (/\ Answered2xx
   /\ TextPath(upstream.doc).k \in {"absent", "null"}
   /\ BlockReason(upstream.doc).t = "null"
   /\ FinishReason(upstream.doc) \notin {Str(<<"MAX_TOKENS">>), Str(<<"SAFETY">>)}) =>
    /\ IsError(500)
    /\ ErrorText = ExtractFailedMessage
    /\ \E i \in 1..Len(console) : console[i].data = upstream.doc

====
